---------------------------- MODULE Spec2Model ----------------------------
(***************************************************************************)
(* DataBridge: the configuration validator, the transform engine and the   *)
(* run orchestrator of src/pipelines.                                       *)
(*                                                                          *)
(* Representation.  A Python str is a sequence of one-character strings,    *)
(* so that the regular expressions, strip(), lower(), Path.suffix and the   *)
(* argument splitter are computed character by character.  A JSON value is  *)
(* a tagged record (JNull, JInt, JStr, JList, JDict); a dict keeps its keys *)
(* in insertion order as a sequence of <<key, value>> pairs.  A DataFrame   *)
(* is [columns, dtypes, index, rows]: column labels and dtypes by position  *)
(* (labels may repeat, as in pandas), the row labels, and one sequence of   *)
(* cells per row.  A cell is [t, i, s]: an int or a str.                    *)
(***************************************************************************)
EXTENDS Integers, Sequences, FiniteSets, TLC

VARIABLES
    runs,        \* the PipelineRun table: pk -> persisted row
    outputData,  \* the OutputData table: sequence of [pipeline_run, data]
    storage,     \* the file storage: sequence of [name, content]
    proc,        \* per caller: the position inside views.run / run_pipeline
    calls,       \* history: per Run pk, the call of run_pipeline that created it
    tin,         \* transform engine harness: the input [df, cfg]
    tout,        \* transform engine harness: what the applied function gave
    vin,         \* validator harness: index of the configuration submitted
    vout         \* validator harness: what validate_config / the POST gave

vars == <<runs, outputData, storage, proc, calls, tin, tout, vin, vout>>

Range(f) == {f[i] : i \in DOMAIN f}

(***************************************************************************)
(* Python str                                                              *)
(***************************************************************************)
\* The characters used, in ASCII order (ord).
Alphabet ==
    << " ", "'", "(", ")", ",", "-", ".",
       "/",
       "0", "1", "2", "3", "4", "5", "6", "7", "8", "9",
       "A", "B", "C", "D", "E", "F", "G", "H", "I", "J", "K", "L", "M",
       "N", "O", "P", "Q", "R", "S", "T", "U", "V", "W", "X", "Y", "Z",
       "_",
       "a", "b", "c", "d", "e", "f", "g", "h", "i", "j", "k", "l", "m",
       "n", "o", "p", "q", "r", "s", "t", "u", "v", "w", "x", "y", "z" >>

Ord(c) == CHOOSE i \in 1..Len(Alphabet) : Alphabet[i] = c

Digits     == {Alphabet[i] : i \in Ord("0")..Ord("9")}
UpperCase  == {Alphabet[i] : i \in Ord("A")..Ord("Z")}
LowerCase  == {Alphabet[i] : i \in Ord("a")..Ord("z")}
IsDigit(c) == c \in Digits
IsUpper(c) == c \in UpperCase
IsLower(c) == c \in LowerCase

\* \w of the re module
IsWordChar(c) == IsDigit(c) \/ IsUpper(c) \/ IsLower(c) \/ c = "_"

\* str.lower()
CaseShift == Ord("a") - Ord("A")
LowerChar(c) == IF IsUpper(c) THEN Alphabet[Ord(c) + CaseShift] ELSE c
StrLower(s) == [i \in 1..Len(s) |-> LowerChar(s[i])]

\* str < str : lexicographic by code point
RECURSIVE StrLess(_, _)
StrLess(a, b) ==
    IF b = <<>> THEN FALSE
    ELSE IF a = <<>> THEN TRUE
    ELSE IF a[1] # b[1] THEN Ord(a[1]) < Ord(b[1])
    ELSE StrLess(Tail(a), Tail(b))

\* str.strip(): the leading and trailing blanks removed
RECURSIVE LStrip(_)
LStrip(s) == IF s # <<>> /\ s[1] = " " THEN LStrip(Tail(s)) ELSE s
RECURSIVE RStrip(_)
RStrip(s) ==
    IF s # <<>> /\ s[Len(s)] = " " THEN RStrip(SubSeq(s, 1, Len(s) - 1)) ELSE s
Strip(s) == RStrip(LStrip(s))

\* needle in haystack
Contains(hay, needle) ==
    \E k \in 0..(Len(hay) - Len(needle)) :
        SubSeq(hay, k + 1, k + Len(needle)) = needle

\* str(int)
OrdZero == Ord("0")
RECURSIVE NatToStr(_)
NatToStr(n) ==
    IF n < 10 THEN << Alphabet[OrdZero + n] >>
    ELSE NatToStr(n \div 10) \o << Alphabet[OrdZero + (n % 10)] >>
IntToStr(n) == IF n < 0 THEN <<"-">> \o NatToStr(0 - n) ELSE NatToStr(n)

\* "".join(parts)
RECURSIVE Join(_)
Join(parts) == IF parts = <<>> THEN <<>> ELSE parts[1] \o Join(Tail(parts))

\* sorted(set of str)
RECURSIVE SortedStrs(_)
SortedStrs(S) ==
    IF S = {} THEN <<>>
    ELSE LET m == CHOOSE x \in S : \A y \in S \ {x} : StrLess(x, y)
         IN  <<m>> \o SortedStrs(S \ {m})

(***************************************************************************)
(* The string literals of the source                                       *)
(***************************************************************************)
K_source_type          == <<"s","o","u","r","c","e","_","t","y","p","e">>
K_destination_type     == <<"d","e","s","t","i","n","a","t","i","o","n","_","t","y","p","e">>
K_destination_filename == <<"d","e","s","t","i","n","a","t","i","o","n","_","f","i","l","e","n","a","m","e">>
K_column_mapping       == <<"c","o","l","u","m","n","_","m","a","p","p","i","n","g">>
K_column_selection     == <<"c","o","l","u","m","n","_","s","e","l","e","c","t","i","o","n">>
K_filters              == <<"f","i","l","t","e","r","s">>
K_computed_fields      == <<"c","o","m","p","u","t","e","d","_","f","i","e","l","d","s">>
K_drop_columns         == <<"d","r","o","p","_","c","o","l","u","m","n","s">>
K_column               == <<"c","o","l","u","m","n">>
K_operator             == <<"o","p","e","r","a","t","o","r">>
K_value                == <<"v","a","l","u","e">>
K_name                 == <<"n","a","m","e">>
K_expression           == <<"e","x","p","r","e","s","s","i","o","n">>

S_csv      == <<"c","s","v">>
S_excel    == <<"e","x","c","e","l">>
S_database == <<"d","a","t","a","b","a","s","e">>
S_eq       == <<"e","q">>
S_gt       == <<"g","t">>
S_lt       == <<"l","t">>
S_contains == <<"c","o","n","t","a","i","n","s">>
S_concat   == <<"c","o","n","c","a","t">>
S_add      == <<"a","d","d">>
Ext_csv    == <<".","c","s","v">>
Ext_xlsx   == <<".","x","l","s","x">>
Ext_xls    == <<".","x","l","s">>

(***************************************************************************)
(* JSON values                                                             *)
(***************************************************************************)
JNull     == [t |-> "null"]
JInt(n)   == [t |-> "int", i |-> n]
JStr(s)   == [t |-> "str", s |-> s]
JList(xs) == [t |-> "list", xs |-> xs]
JDict(kv) == [t |-> "dict", kv |-> kv]

\* key in d
HasKey(d, k) == \E i \in 1..Len(d.kv) : d.kv[i][1] = k
\* d[key], for a key that is there
Item(d, k) == d.kv[CHOOSE i \in 1..Len(d.kv) : d.kv[i][1] = k][2]
\* d.get(key)
Get(d, k) == IF HasKey(d, k) THEN Item(d, k) ELSE JNull
\* d.keys()
Keys(d) == {d.kv[i][1] : i \in 1..Len(d.kv)}

\* bool(value), for `not config.get(...)`
Truthy(v) ==
    CASE v.t = "null" -> FALSE
      [] v.t = "int"  -> v.i # 0
      [] v.t = "str"  -> v.s # <<>>
      [] v.t = "list" -> v.xs # <<>>
      [] v.t = "dict" -> v.kv # <<>>

\* hash(value) succeeds: a list or a dict is unhashable
Hashable(v) == v.t \notin {"list", "dict"}

(***************************************************************************)
(* Exceptions and results                                                  *)
(***************************************************************************)
\* An exception: its class, and str(exc) as a message template with the
\* strings formatted into it.
Exc(cls, text, args) == [cls |-> cls, text |-> text, args |-> args]
NoExc == Exc("", "", <<>>)

\* class TransformError and its subclasses
TransformErrorClasses ==
    {"TransformError", "ColumnMismatchError", "InvalidExpressionError"}

\* a DataFrame
Frame(columns, dtypes, index, rows) ==
    [columns |-> columns, dtypes |-> dtypes, index |-> index, rows |-> rows]
NoFrame == Frame(<<>>, <<>>, <<>>, <<>>)

\* what a call gave: a DataFrame returned, or an exception raised
Ok(df)   == [ok |-> TRUE, df |-> df, exc |-> NoExc]
Raise(e) == [ok |-> FALSE, df |-> NoFrame, exc |-> e]

\* cells
CInt(n) == [t |-> "int", i |-> n, s |-> <<>>]
CStr(s) == [t |-> "str", i |-> 0, s |-> s]
\* str(cell)
CellStr(c) == IF c.t = "int" THEN IntToStr(c.i) ELSE c.s

\* the positions of label c among the columns
Positions(df, c) == {p \in 1..Len(df.columns) : df.columns[p] = c}
\* the number of rows
NRows(df) == Len(df.index)


\* a set of positions, ascending
RECURSIVE Ascending(_)
Ascending(S) ==
    IF S = {} THEN <<>>
    ELSE LET m == CHOOSE x \in S : \A y \in S : x <= y
         IN  <<m>> \o Ascending(S \ {m})

\* the frame restricted to the column positions ps, in that order
TakeColumns(df, ps) ==
    Frame([k \in 1..Len(ps) |-> df.columns[ps[k]]],
          [k \in 1..Len(ps) |-> df.dtypes[ps[k]]],
          df.index,
          [r \in 1..Len(df.rows) |-> [k \in 1..Len(ps) |-> df.rows[r][ps[k]]]])

(***************************************************************************)
(* engine/transforms.py                                                    *)
(***************************************************************************)
\* df.rename(columns=mapping): a new frame, each label looked up in mapping
Rename(df, mapping) ==
    Frame([p \in 1..Len(df.columns) |->
              IF HasKey(mapping, df.columns[p])
              THEN Item(mapping, df.columns[p]).s
              ELSE df.columns[p]],
          df.dtypes, df.index, df.rows)

apply_column_mapping(df, mapping) ==
    LET missing == Keys(mapping) \ Range(df.columns)
    IN  IF missing # {}
        THEN Raise(Exc("ColumnMismatchError",
                       "column_mapping references columns not in data: {sorted(missing)}",
                       SortedStrs(missing)))
        ELSE Ok(Rename(df, mapping))

\* df[columns]: for each listed label, in order, every column carrying it
RECURSIVE SelectedPositions(_, _)
SelectedPositions(df, names) ==
    IF names = <<>> THEN <<>>
    ELSE Ascending(Positions(df, names[1])) \o SelectedPositions(df, Tail(names))

apply_column_selection(df, columns) ==
    LET names   == [k \in 1..Len(columns.xs) |-> columns.xs[k].s]
        missing == Range(names) \ Range(df.columns)
    IN  IF missing # {}
        THEN Raise(Exc("ColumnMismatchError",
                       "column_selection references missing columns: {sorted(missing)}",
                       SortedStrs(missing)))
        ELSE Ok(TakeColumns(df, SelectedPositions(df, names)))

\* FILTER_OPERATORS
FILTER_OPERATORS == {S_eq, S_gt, S_lt, S_contains}

\* the comparisons pandas makes cell by cell
CellEq(c, v) ==
    CASE v.t = "int" -> c.t = "int" /\ c.i = v.i
      [] v.t = "str" -> c.t = "str" /\ c.s = v.s
      [] OTHER       -> FALSE
CellGt(c, v) == IF v.t = "int" THEN c.i > v.i ELSE StrLess(v.s, c.s)
CellLt(c, v) == IF v.t = "int" THEN c.i < v.i ELSE StrLess(c.s, v.s)
\* str(v) of a filter value
ValueStr(v) == IF v.t = "int" THEN IntToStr(v.i) ELSE v.s

\* FILTER_OPERATORS[op](df[col], value) for the one column at position p:
\* [ok, mask, exc].  An ordering comparison raises TypeError between a
\* numeric column and a str whatever the length, and between an object
\* column and a value of another type as soon as one cell is compared.
\* The pattern of contains is searched as a regular expression; the values
\* of the model hold no regex metacharacter, so the search is for a substring.
SeriesOp(df, p, op, v) ==
    LET cells   == [r \in 1..Len(df.rows) |-> df.rows[r][p]]
        numeric == df.dtypes[p] \in {"int64", "float64"}
        ordered == v.t \in {"int", "str"}
        clash   == \/ ~ordered
                   \/ numeric /\ v.t = "str"
                   \/ \E r \in 1..Len(cells) : cells[r].t # v.t
    IN  CASE op = S_eq ->
               [ok |-> TRUE, mask |-> [r \in 1..Len(cells) |-> CellEq(cells[r], v)],
                exc |-> NoExc]
          [] op \in {S_gt, S_lt} ->
               IF clash
               THEN [ok |-> FALSE, mask |-> <<>>,
                     exc |-> Exc("TypeError", "comparison not supported between these types", <<>>)]
               ELSE [ok |-> TRUE,
                     mask |-> [r \in 1..Len(cells) |->
                                  IF op = S_gt THEN CellGt(cells[r], v)
                                               ELSE CellLt(cells[r], v)],
                     exc |-> NoExc]
          [] op = S_contains ->
               [ok |-> TRUE,
                mask |-> [r \in 1..Len(cells) |-> Contains(CellStr(cells[r]), ValueStr(v))],
                exc |-> NoExc]

\* FILTER_OPERATORS[op](df[col], value).  When the label col is carried by
\* several columns df[col] is a DataFrame: contains has no .str on it, and a
\* two-dimensional mask is refused by df.loc.
FilterMask(df, col, op, v) ==
    LET ps == Positions(df, col)
    IN  IF Cardinality(ps) = 1
        THEN SeriesOp(df, CHOOSE p \in ps : TRUE, op, v)
        ELSE IF op = S_contains
        THEN [ok |-> FALSE, mask |-> <<>>,
              exc |-> Exc("AttributeError", "'DataFrame' object has no attribute 'str'", <<>>)]
        ELSE IF \E p \in ps : ~SeriesOp(df, p, op, v).ok
        THEN [ok |-> FALSE, mask |-> <<>>,
              exc |-> Exc("TypeError", "comparison not supported between these types", <<>>)]
        ELSE [ok |-> FALSE, mask |-> <<>>,
              exc |-> Exc("ValueError", "Cannot index with multidimensional key", <<>>)]

\* df.loc[mask]: the rows whose mask is True, with the labels they had
RECURSIVE Kept(_, _)
Kept(mask, r) ==
    IF r > Len(mask) THEN <<>>
    ELSE (IF mask[r] THEN <<r>> ELSE <<>>) \o Kept(mask, r + 1)
Loc(df, mask) ==
    LET keep == Kept(mask, 1)
    IN  Frame(df.columns, df.dtypes,
              [k \in 1..Len(keep) |-> df.index[keep[k]]],
              [k \in 1..Len(keep) |-> df.rows[keep[k]]])

\* the row labels left as df.loc gave them
ResetIndex_labels_kept(df) == df
\* .reset_index(drop=True): the row labels renumbered 0, 1, ...
ResetIndex(df) ==
    Frame(df.columns, df.dtypes, [k \in 1..Len(df.index) |-> k - 1], df.rows)

\* df = df.loc[mask].reset_index(drop=True), or the exception the mask raised
Masked(df, m) == IF m.ok THEN Ok(ResetIndex(Loc(df, m.mask))) ELSE Raise(m.exc)

\* the body of the loop of apply_filters for one filter f
FilterStep(df, f) ==
    IF ~HasKey(f, K_column) THEN Raise(Exc("KeyError", "'{key}'", <<K_column>>))
    ELSE IF ~HasKey(f, K_operator) THEN Raise(Exc("KeyError", "'{key}'", <<K_operator>>))
    ELSE IF ~HasKey(f, K_value) THEN Raise(Exc("KeyError", "'{key}'", <<K_value>>))
    ELSE LET col   == Item(f, K_column)
             op    == Item(f, K_operator)
             value == Item(f, K_value)
         IN  IF col.s \notin Range(df.columns)
             THEN Raise(Exc("ColumnMismatchError",
                            "Filter references missing column: '{col}'", <<col.s>>))
             ELSE IF ~Hashable(op)
             THEN Raise(Exc("TypeError", "unhashable type", <<>>))
             ELSE IF op.t # "str" \/ op.s \notin FILTER_OPERATORS
             THEN Raise(Exc("TransformError",
                            "Unsupported filter operator: '{op}'",
                            IF op.t = "str" THEN <<op.s>> ELSE <<>>))
             ELSE Masked(df, FilterMask(df, col.s, op.s, value))

\* the loop of apply_filters: the filters one after the other, each on the
\* frame the one before left; an exception ends the loop
RECURSIVE FilterLoop(_, _)
FilterRest(one, fs) == IF one.ok THEN FilterLoop(one.df, fs) ELSE one
FilterLoop(df, fs) ==
    IF fs = <<>> THEN Ok(df) ELSE FilterRest(FilterStep(df, fs[1]), Tail(fs))

apply_filters(df, filters) == FilterLoop(df, filters.xs)


(***************************************************************************)
(* Computed fields                                                         *)
(***************************************************************************)
\* the length of the longest run of \w characters that starts s
RECURSIVE WordRun(_)
WordRun(s) ==
    IF s # <<>> /\ IsWordChar(s[1]) THEN 1 + WordRun(Tail(s)) ELSE 0

\* _EXPR_RE = ^(\w+)\((.+)\)$ : [matched, g1, g2].  "(" is no \w character,
\* so group 1 is the whole leading run; group 2 is greedy up to the last ")".
EXPR_RE_match(s) ==
    LET w == WordRun(s)
    IN  IF w >= 1 /\ Len(s) >= w + 3 /\ s[w + 1] = "(" /\ s[Len(s)] = ")"
        THEN [matched |-> TRUE, g1 |-> SubSeq(s, 1, w), g2 |-> SubSeq(s, w + 2, Len(s) - 1)]
        ELSE [matched |-> FALSE, g1 |-> <<>>, g2 |-> <<>>]

\* _LITERAL_RE = ^'(.*)'$
LITERAL_RE_match(s) ==
    IF Len(s) >= 2 /\ s[1] = "'" /\ s[Len(s)] = "'"
    THEN [matched |-> TRUE, g1 |-> SubSeq(s, 2, Len(s) - 1)]
    ELSE [matched |-> FALSE, g1 |-> <<>>]

\* the loop of _parse_args from character k on
RECURSIVE ParseLoop(_, _, _, _, _)
ParseLoop(raw, k, args, current, in_quote) ==
    IF k > Len(raw)
    THEN IF current # <<>> THEN Append(args, Strip(current)) ELSE args
    ELSE IF raw[k] = "'"
    THEN ParseLoop(raw, k + 1, args, Append(current, raw[k]), ~in_quote)
    ELSE IF raw[k] = "," /\ ~in_quote
    THEN ParseLoop(raw, k + 1, Append(args, Strip(current)), <<>>, in_quote)
    ELSE ParseLoop(raw, k + 1, args, Append(current, raw[k]), in_quote)

parse_args(raw) == ParseLoop(raw, 1, <<>>, <<>>, FALSE)

\* A value an argument resolves to: an int, a str, NaN (the probe row pandas
\* builds for an empty frame) or the Series row[arg] is when several columns
\* carry the label.
PInt(n)  == [t |-> "int", i |-> n, s |-> <<>>]
PStr(s)  == [t |-> "str", i |-> 0, s |-> s]
PNaN     == [t |-> "nan", i |-> 0, s |-> <<>>]
PSeries  == [t |-> "series", i |-> 0, s |-> <<>>]
\* str(value); the text of str(Series) is not spelled out
PyStr(v) ==
    CASE v.t = "int"    -> IntToStr(v.i)
      [] v.t = "str"    -> v.s
      [] v.t = "nan"    -> <<"n", "a", "n">>
      [] v.t = "series" -> <<"S", "e", "r", "i", "e", "s">>

\* a row: [labels, cells]
resolve_arg(arg, row) ==
    LET m == LITERAL_RE_match(arg)
    IN  IF m.matched THEN PStr(m.g1)
        ELSE LET ps == {p \in 1..Len(row.labels) : row.labels[p] = arg}
             IN  IF Cardinality(ps) = 1 THEN row.cells[CHOOSE p \in ps : TRUE]
                 ELSE PSeries

\* EXPRESSION_FUNCTIONS["concat"]
fn_concat(vals) ==
    [ok |-> TRUE, val |-> PStr(Join([k \in 1..Len(vals) |-> PyStr(vals[k])])),
     exc |-> NoExc]

\* EXPRESSION_FUNCTIONS["add"]: vals[0] + vals[1]
fn_add(vals) ==
    IF Len(vals) < 2
    THEN [ok |-> FALSE, val |-> PNaN, exc |-> Exc("IndexError", "list index out of range", <<>>)]
    ELSE LET a == vals[1]
             b == vals[2]
         IN  CASE a.t = "series" \/ b.t = "series" ->
                    [ok |-> TRUE, val |-> PSeries, exc |-> NoExc]
               [] a.t = "int" /\ b.t = "int" ->
                    [ok |-> TRUE, val |-> PInt(a.i + b.i), exc |-> NoExc]
               [] a.t = "str" /\ b.t = "str" ->
                    [ok |-> TRUE, val |-> PStr(a.s \o b.s), exc |-> NoExc]
               [] a.t \in {"int", "nan"} /\ b.t \in {"int", "nan"} ->
                    [ok |-> TRUE, val |-> PNaN, exc |-> NoExc]
               [] OTHER ->
                    [ok |-> FALSE, val |-> PNaN,
                     exc |-> Exc("TypeError", "unsupported operand type(s) for +", <<>>)]

EXPRESSION_FUNCTIONS == {S_concat, S_add}

\* EXPRESSION_FUNCTIONS[func_name](resolved)
Dispatch(func_name, resolved) ==
    IF func_name = S_concat THEN fn_concat(resolved) ELSE fn_add(resolved)

\* [_resolve_arg(a, row) for a in args]
Resolved(args, row) == [k \in 1..Len(args) |-> resolve_arg(args[k], row)]

eval_expression(expr, row) ==
    LET m == EXPR_RE_match(Strip(expr))
    IN  IF ~m.matched
        THEN [ok |-> FALSE, val |-> PNaN,
              exc |-> Exc("InvalidExpressionError", "Cannot parse expression: '{expr}'", <<expr>>)]
        ELSE IF m.g1 \notin EXPRESSION_FUNCTIONS
        THEN [ok |-> FALSE, val |-> PNaN,
              exc |-> Exc("InvalidExpressionError", "Unsupported function: '{func_name}'", <<m.g1>>)]
        ELSE Dispatch(m.g1, Resolved(parse_args(m.g2), row))


\* the dtype pandas infers for a column of these values
InferDtype(vals) ==
    IF \A k \in 1..Len(vals) : vals[k].t = "int" THEN "int64" ELSE "object"

\* df[name] = values: every column labelled name is overwritten where it
\* stands; a new label is appended on the right
SetColumn(df, name, values, dtype) ==
    IF name \in Range(df.columns)
    THEN Frame(df.columns,
               [p \in 1..Len(df.columns) |->
                   IF df.columns[p] = name THEN dtype ELSE df.dtypes[p]],
               df.index,
               [r \in 1..Len(df.rows) |->
                   [p \in 1..Len(df.columns) |->
                       IF df.columns[p] = name THEN values[r] ELSE df.rows[r][p]]])
    ELSE Frame(Append(df.columns, name), Append(df.dtypes, dtype), df.index,
               [r \in 1..Len(df.rows) |-> Append(df.rows[r], values[r])])

\* df[name] = <a copy of df>, which is what df.apply gives for an empty frame
\* when the function raised on the probe row (pandas 2: _set_item_frame_value)
SetColumnToFrame(df, name) ==
    LET n == Len(df.columns)
    IN  IF name \in Range(df.columns)
        THEN IF Cardinality(Positions(df, name)) # n
             THEN Raise(Exc("ValueError", "Columns must be same length as key", <<>>))
             ELSE Ok(df)
        ELSE IF n > 1
        THEN Raise(Exc("ValueError",
                       "Cannot set a DataFrame with multiple columns to the single column {key}",
                       <<name>>))
        ELSE IF n = 0
        THEN Raise(Exc("ValueError",
                       "Cannot set a DataFrame without columns to the column {key}",
                       <<name>>))
        ELSE Ok(SetColumn(df, name,
                          [r \in 1..Len(df.rows) |-> df.rows[r][1]], df.dtypes[1]))

\* df[name] = <what df.apply gave for a frame with rows and columns>: res is
\* what the function gave row by row; the first exception is raised
AssignRows(df, name, res) ==
    LET bad == {r \in 1..Len(res) : ~res[r].ok}
    IN  IF bad # {}
        THEN Raise(res[CHOOSE r \in bad : \A q \in bad : r <= q].exc)
        ELSE IF \E r \in 1..Len(res) : res[r].val.t = "series"
        THEN Raise(Exc("ValueError",
                       "Cannot set a DataFrame with multiple columns to the single column {key}",
                       <<name>>))
        ELSE Ok(SetColumn(df, name, [r \in 1..Len(res) |-> res[r].val],
                          InferDtype([r \in 1..Len(res) |-> res[r].val])))

\* df[name] = <what df.apply gave for a frame with no row or no column>:
\* probe is what the function gave on the probe row of NaN.  pandas swallows
\* its exception and gives a copy of the frame when it raised (or gave a
\* Series), and otherwise a column of the result.
AssignProbed(df, name, probe) ==
    IF ~probe.ok \/ probe.val.t = "series"
    THEN SetColumnToFrame(df, name)
    ELSE IF NRows(df) > 0
    THEN Ok(SetColumn(df, name, [r \in 1..Len(df.rows) |-> probe.val],
                      InferDtype(<<probe.val>>)))
    ELSE Ok(SetColumn(df, name, <<>>, "float64"))

\* df[name] = df.apply(lambda row: _eval_expression(expression, row), axis=1)
AssignApplied(df, name, expression) ==
    IF NRows(df) > 0 /\ Len(df.columns) > 0
    THEN AssignRows(df, name,
                    [r \in 1..Len(df.rows) |->
                        eval_expression(expression,
                                        [labels |-> df.columns, cells |-> df.rows[r]])])
    ELSE AssignProbed(df, name,
                      eval_expression(expression,
                                      [labels |-> df.columns,
                                       cells  |-> [p \in 1..Len(df.columns) |-> PNaN]]))

\* the body of the loop of apply_computed_fields for one field
FieldStep(df, field) ==
    IF ~HasKey(field, K_name) THEN Raise(Exc("KeyError", "'{key}'", <<K_name>>))
    ELSE IF ~HasKey(field, K_expression)
    THEN Raise(Exc("KeyError", "'{key}'", <<K_expression>>))
    ELSE LET name       == Item(field, K_name)
             expression == Item(field, K_expression)
         IN  IF expression.t # "str"
             THEN Raise(Exc("AttributeError", "object has no attribute 'strip'", <<>>))
             ELSE LET m    == EXPR_RE_match(Strip(expression.s))
                      args == IF m.matched THEN parse_args(m.g2) ELSE <<>>
                      gone == {k \in 1..Len(args) :
                                  /\ ~LITERAL_RE_match(args[k]).matched
                                  /\ args[k] \notin Range(df.columns)}
                  IN  IF gone # {}
                      THEN Raise(Exc("ColumnMismatchError",
                                     "Computed field '{name}' references missing column: '{arg}'",
                                     <<name.s, args[CHOOSE k \in gone : \A q \in gone : k <= q]>>))
                      ELSE AssignApplied(df, name.s, expression.s)

\* the loop of apply_computed_fields
RECURSIVE FieldLoop(_, _)
FieldRest(one, fields) == IF one.ok THEN FieldLoop(one.df, fields) ELSE one
FieldLoop(df, fields) ==
    IF fields = <<>> THEN Ok(df) ELSE FieldRest(FieldStep(df, fields[1]), Tail(fields))

apply_computed_fields(df, computed_fields) == FieldLoop(df, computed_fields.xs)

\* df.drop(columns=present): every column carrying a listed label goes
apply_drop_columns(df, columns) ==
    LET listed == {columns.xs[k].s : k \in 1..Len(columns.xs)}
    IN  Ok(TakeColumns(df, Ascending({p \in 1..Len(df.columns) :
                                          df.columns[p] \notin listed})))

\* the five steps of run_transforms, in the order of its `if` statements
TRANSFORM_ORDER ==
    <<K_column_mapping, K_column_selection, K_filters, K_computed_fields, K_drop_columns>>

\* the function run_transforms calls for a key
ApplyStep(key, df, arg) ==
    CASE key = K_column_mapping   -> apply_column_mapping(df, arg)
      [] key = K_column_selection -> apply_column_selection(df, arg)
      [] key = K_filters          -> apply_filters(df, arg)
      [] key = K_computed_fields  -> apply_computed_fields(df, arg)
      [] key = K_drop_columns     -> apply_drop_columns(df, arg)

\* `if key in config: df = fn(df, config[key])`; an exception ends the call
StepIf(prev, config, key) ==
    IF prev.ok /\ HasKey(config, key)
    THEN ApplyStep(key, prev.df, Item(config, key))
    ELSE prev

RECURSIVE RunSteps(_, _, _)
RunSteps(prev, config, keys) ==
    IF keys = <<>> THEN prev
    ELSE RunSteps(StepIf(prev, config, keys[1]), config, Tail(keys))

\* the keys of the configuration that name a step, in the order they appear
StepOrder_of_the_keys(config) ==
    SelectSeq([k \in 1..Len(config.kv) |-> config.kv[k][1]],
              LAMBDA key : key \in Range(TRANSFORM_ORDER))

\* the order in which run_transforms applies the steps to a configuration
StepOrder(config) == TRANSFORM_ORDER

run_transforms(df, config) == RunSteps(Ok(df), config, StepOrder(config))

\* `df[name] = ...` (line 133) assigns into the frame object the function was
\* given, and `df` is never rebound in apply_computed_fields: the frame the
\* caller passed holds, after the call, every column assigned before the loop
\* ended or raised
RECURSIVE FieldsLeave(_, _)
FieldsLeaveRest(one, df, fields) == IF one.ok THEN FieldsLeave(one.df, fields) ELSE df
FieldsLeave(df, fields) ==
    IF fields = <<>> THEN df
    ELSE FieldsLeaveRest(FieldStep(df, fields[1]), df, Tail(fields))

apply_computed_fields_leaves(df, computed_fields) == FieldsLeave(df, computed_fields.xs)

\* whether a step returns the frame object it was given: rename, df[columns],
\* .loc[mask].reset_index and drop build a new frame; apply_filters with no
\* filter and apply_computed_fields return their argument
ReturnsItsArgument(key, arg) ==
    \/ key = K_computed_fields
    \/ key = K_filters /\ arg.xs = <<>>

\* the frame object the caller gave to run_transforms, after the call: the
\* steps reach it until one of them rebinds `df` to a new frame or raises
RECURSIVE CallerFrame(_, _, _)
CallerFrameStep(df, config, key, keys) ==
    IF ~HasKey(config, key) THEN CallerFrame(df, config, keys)
    ELSE IF ~ReturnsItsArgument(key, Item(config, key)) THEN df
    ELSE IF key = K_filters THEN CallerFrame(df, config, keys)
    ELSE IF apply_computed_fields(df, Item(config, key)).ok
    THEN CallerFrame(apply_computed_fields_leaves(df, Item(config, key)), config, keys)
    ELSE apply_computed_fields_leaves(df, Item(config, key))
CallerFrame(df, config, keys) ==
    IF keys = <<>> THEN df ELSE CallerFrameStep(df, config, keys[1], Tail(keys))

run_transforms_leaves(df, config) == CallerFrame(df, config, StepOrder(config))

(***************************************************************************)
(* services/config_validator.py                                            *)
(***************************************************************************)
SUPPORTED_SOURCE_TYPES      == {S_csv, S_excel}
SUPPORTED_DESTINATION_TYPES == {S_database, S_csv}
SUPPORTED_FILTER_OPERATORS  == {S_eq, S_gt, S_lt, S_contains}
SUPPORTED_EXPRESSION_FUNCS  == {S_concat, S_add}

\* {"field": ..., "message": ...}; i is the index formatted into the field
Err(field, i, message) == [field |-> field, i |-> i, message |-> message]

\* What a part of validate_config gave: the errors it appended, and the
\* exception it raised (NoExc when it ran to its end).
Part(errors, exc) == [errors |-> errors, exc |-> exc]

\* `value not in <set of str>`: hashing an unhashable value raises TypeError
NotInSet(v, S) == v.t # "str" \/ v.s \notin S

\* lines 28-38 and 40-52: a required key whose value must be in a set
CheckChoice(config, key, S, field) ==
    LET v == Get(config, key)
    IN  IF v.t = "null" THEN Part(<<Err(field, 0, "Required.")>>, NoExc)
        ELSE IF ~Hashable(v) THEN Part(<<>>, Exc("TypeError", "unhashable type", <<>>))
        ELSE IF NotInSet(v, S)
        THEN Part(<<Err(field, 0, "Unsupported. Allowed: {sorted(...)}.")>>, NoExc)
        ELSE Part(<<>>, NoExc)

\* lines 54-61
CheckDestinationFilename(config) ==
    LET dest_type == Get(config, K_destination_type)
    IN  IF /\ dest_type.t = "str" /\ dest_type.s = S_csv
           /\ ~Truthy(Get(config, K_destination_filename))
        THEN Part(<<Err("configuration.destination_filename", 0,
                        "Required when destination_type is 'csv'.")>>, NoExc)
        ELSE Part(<<>>, NoExc)

\* lines 63-68
CheckMapping(config) ==
    LET mapping == Get(config, K_column_mapping)
    IN  IF mapping.t # "null" /\ mapping.t # "dict"
        THEN Part(<<Err("configuration.column_mapping", 0, "Must be an object.")>>, NoExc)
        ELSE Part(<<>>, NoExc)

\* lines 70-80
CheckSelection(config) ==
    LET selection == Get(config, K_column_selection)
    IN  IF selection.t # "null" /\ (selection.t # "list" \/ Len(selection.xs) = 0)
        THEN Part(<<Err("configuration.column_selection", 0, "Must be a non-empty list.")>>,
                  NoExc)
        ELSE Part(<<>>, NoExc)

\* lines 91-106: one filter
CheckFilter(f, i) ==
    IF f.t # "dict"
    THEN Part(<<Err("configuration.filters[{i}]", i, "Must be an object.")>>, NoExc)
    ELSE LET required ==
                 (IF HasKey(f, K_column) THEN <<>>
                  ELSE <<Err("configuration.filters[{i}].column", i, "Required.")>>)
                 \o (IF HasKey(f, K_operator) THEN <<>>
                     ELSE <<Err("configuration.filters[{i}].operator", i, "Required.")>>)
                 \o (IF HasKey(f, K_value) THEN <<>>
                     ELSE <<Err("configuration.filters[{i}].value", i, "Required.")>>)
         IN  IF ~HasKey(f, K_operator) THEN Part(required, NoExc)
             ELSE IF ~Hashable(Item(f, K_operator))
             THEN Part(required, Exc("TypeError", "unhashable type", <<>>))
             ELSE IF NotInSet(Item(f, K_operator), SUPPORTED_FILTER_OPERATORS)
             THEN Part(Append(required,
                              Err("configuration.filters[{i}].operator", i,
                                  "Unsupported. Allowed: {sorted(...)}.")), NoExc)
             ELSE Part(required, NoExc)

\* lines 116-142: one computed field
CheckComputed(cf, i) ==
    IF cf.t # "dict"
    THEN Part(<<Err("configuration.computed_fields[{i}]", i, "Must be an object.")>>, NoExc)
    ELSE LET named == IF HasKey(cf, K_name) THEN <<>>
                      ELSE <<Err("configuration.computed_fields[{i}].name", i, "Required.")>>
         IN  IF ~HasKey(cf, K_expression)
             THEN Part(Append(named,
                              Err("configuration.computed_fields[{i}].expression", i,
                                  "Required.")), NoExc)
             ELSE LET e == Item(cf, K_expression)
                  IN  IF e.t # "str"
                      THEN Part(named, Exc("AttributeError",
                                           "object has no attribute 'strip'", <<>>))
                      ELSE LET m == EXPR_RE_match(Strip(e.s))
                           IN  IF ~m.matched
                               THEN Part(Append(named,
                                                Err("configuration.computed_fields[{i}].expression",
                                                    i, "Cannot parse: '{expression}'.")), NoExc)
                               ELSE IF m.g1 \notin SUPPORTED_EXPRESSION_FUNCS
                               THEN Part(Append(named,
                                                Err("configuration.computed_fields[{i}].expression",
                                                    i, "Unsupported function: '{name}'.")), NoExc)
                               ELSE Part(named, NoExc)

\* `for i, f in enumerate(filters)`: up to the first filter that raises
RECURSIVE CheckFilterLoop(_, _)
CheckFilterLoop(xs, i) ==
    IF i >= Len(xs) THEN Part(<<>>, NoExc)
    ELSE LET one == CheckFilter(xs[i + 1], i)
         IN  IF one.exc # NoExc THEN one
             ELSE LET rest == CheckFilterLoop(xs, i + 1)
                  IN  Part(one.errors \o rest.errors, rest.exc)

\* `for i, cf in enumerate(computed)`: up to the first field that raises
RECURSIVE CheckComputedLoop(_, _)
CheckComputedLoop(xs, i) ==
    IF i >= Len(xs) THEN Part(<<>>, NoExc)
    ELSE LET one == CheckComputed(xs[i + 1], i)
         IN  IF one.exc # NoExc THEN one
             ELSE LET rest == CheckComputedLoop(xs, i + 1)
                  IN  Part(one.errors \o rest.errors, rest.exc)

\* lines 82-106
CheckFilters(config) ==
    LET filters == Get(config, K_filters)
    IN  IF filters.t = "null" THEN Part(<<>>, NoExc)
        ELSE IF filters.t # "list"
        THEN Part(<<Err("configuration.filters", 0, "Must be a list.")>>, NoExc)
        ELSE CheckFilterLoop(filters.xs, 0)

\* lines 108-142
CheckComputedFields(config) ==
    LET computed == Get(config, K_computed_fields)
    IN  IF computed.t = "null" THEN Part(<<>>, NoExc)
        ELSE IF computed.t # "list"
        THEN Part(<<Err("configuration.computed_fields", 0, "Must be a list.")>>, NoExc)
        ELSE CheckComputedLoop(computed.xs, 0)

\* lines 144-149
CheckDrop(config) ==
    LET drop == Get(config, K_drop_columns)
    IN  IF drop.t # "null" /\ drop.t # "list"
        THEN Part(<<Err("configuration.drop_columns", 0, "Must be a list.")>>, NoExc)
        ELSE Part(<<>>, NoExc)

\* the parts in the order of the source; the first exception ends the call
RECURSIVE Sequenced(_)
Sequenced(parts) ==
    IF parts = <<>> THEN Part(<<>>, NoExc)
    ELSE IF parts[1].exc # NoExc THEN parts[1]
    ELSE LET rest == Sequenced(Tail(parts))
         IN  Part(parts[1].errors \o rest.errors, rest.exc)

\* validate_config(config): [errors, exc]; errors is the list returned when
\* exc = NoExc, and exc the exception that left the function otherwise
validate_config(config) ==
    IF config.t # "dict"
    THEN Part(<<Err("configuration", 0, "Must be a JSON object.")>>, NoExc)
    ELSE LET all == Sequenced(<<
                 CheckChoice(config, K_source_type, SUPPORTED_SOURCE_TYPES,
                             "configuration.source_type"),
                 CheckChoice(config, K_destination_type, SUPPORTED_DESTINATION_TYPES,
                             "configuration.destination_type"),
                 CheckDestinationFilename(config),
                 CheckMapping(config),
                 CheckSelection(config),
                 CheckFilters(config),
                 CheckComputedFields(config),
                 CheckDrop(config) >>)
         IN  IF all.exc # NoExc THEN Part(<<>>, all.exc) ELSE all


(***************************************************************************)
(* models.py                                                               *)
(***************************************************************************)
\* PipelineRun.Status
PENDING   == "pending"
COMPLETED == "completed"
FAILED    == "failed"

\* A FileField value: the name in the storage, and the counter that stands
\* for the suffix the storage adds to a name already taken.  NoFile is the
\* empty value (null=True): falsy, serialized as null.
FileRef(name, n) == [name |-> name, n |-> n]
NoFile == FileRef(<<>>, 0)

\* A TextField value: null, or the text (a template and what is formatted
\* into it)
NoMsg == [null |-> TRUE, text |-> "", args |-> <<>>]
\* str(exc)
StrOfExc(exc) == [null |-> FALSE, text |-> exc.text, args |-> exc.args]

\* a PipelineRun instance / row
RunRow(pipeline, input_file, output_file, status, error_message) ==
    [pipeline |-> pipeline, input_file |-> input_file, output_file |-> output_file,
     status |-> status, error_message |-> error_message]

\* an OutputData row
OutputRow(run, data) == [pipeline_run |-> run, data |-> data]

(***************************************************************************)
(* services/pipeline_service.py                                            *)
(***************************************************************************)
\* a set with one more extension than the code allows
ALLOWED_EXTENSIONS_and_txt == {Ext_csv, Ext_xlsx, Ext_xls, <<".","t","x","t">>}
ALLOWED_EXTENSIONS == {Ext_csv, Ext_xlsx, Ext_xls}

\* name.rfind(".")
RECURSIVE RFindDot(_, _)
RFindDot(name, k) ==
    IF k = 0 THEN 0 ELSE IF name[k] = "." THEN k ELSE RFindDot(name, k - 1)

\* Path(name).suffix: from the last dot on, unless the name starts or ends
\* with that dot
PathSuffix(name) ==
    LET i == RFindDot(name, Len(name))
    IN  IF i > 1 /\ i < Len(name) THEN SubSeq(name, i, Len(name)) ELSE <<>>

\* ext = Path(uploaded_file.name).suffix.lower()
FileExt(name) == StrLower(PathSuffix(name))

\* line 77: ext in ALLOWED_EXTENSIONS
ExtensionAllowed(name) == FileExt(name) \in ALLOWED_EXTENSIONS

\* _read_file: an uploaded file is [name, content], content [valid, df]: the
\* decoder gives df for bytes it can decode and raises otherwise
read_file(file) ==
    IF FileExt(file.name) \in {Ext_csv, Ext_xlsx, Ext_xls}
    THEN IF file.content.valid THEN Ok(file.content.df)
         ELSE Raise(Exc("ParserError", "Error tokenizing data", <<>>))
    ELSE Raise(Exc("PipelineExecutionError",
                   "File type '{ext}' is not supported. Allowed: .csv, .xlsx, .xls",
                   <<FileExt(file.name)>>))

\* _write_csv: the header line and one line of stringified cells per row
write_csv(df) ==
    [header |-> df.columns,
     lines  |-> [r \in 1..Len(df.rows) |->
                    [p \in 1..Len(df.columns) |-> CellStr(df.rows[r][p])]]]

\* df.to_dict(orient="records"): one dict per row; the row is kept as the
\* sequence of <<label, cell>> pairs
to_dict_records(df) ==
    [r \in 1..Len(df.rows) |->
        [p \in 1..Len(df.columns) |-> <<df.columns[p], df.rows[r][p]>>]]

\* a writer that leaves the first row out
write_database_without_first(df, run) ==
    LET rows == Tail(to_dict_records(df))
    IN  [r \in 1..Len(rows) |-> OutputRow(run, rows[r])]
\* _write_database: the OutputData rows bulk_create inserts
write_database(df, run) ==
    LET rows == to_dict_records(df)
    IN  [r \in 1..Len(rows) |-> OutputRow(run, rows[r])]

\* a name that leaves the Run out: f"pipeline_{pipeline.pk}.csv"
OutputFilename_without_run(pipeline, run) ==
    <<"p","i","p","e","l","i","n","e","_">> \o IntToStr(pipeline) \o Ext_csv
\* f"pipeline_{pipeline.pk}_run_{run.pk}.csv"
OutputFilename(pipeline, run) ==
    <<"p","i","p","e","l","i","n","e","_">> \o IntToStr(pipeline)
        \o <<"_","r","u","n","_">> \o IntToStr(run) \o Ext_csv

\* storage.save(name, content): the name is kept when free and suffixed
\* otherwise; gives the storage after, and the reference stored
TakenCount(store, name) == Cardinality({k \in 1..Len(store) : store[k].name = name})
StorageSave(store, name, content) ==
    LET ref == FileRef(name, TakenCount(store, name))
    IN  [store |-> Append(store, [name |-> name, n |-> ref.n, content |-> content]),
         ref   |-> ref]

\* run_pipeline without its second except clause
ExceptClause_first_only(cls) ==
    IF cls \in TransformErrorClasses THEN 1 ELSE 0
\* which except clause of run_pipeline takes an exception of this class:
\* 1 (lines 112-115), 2 (lines 117-120), 0 when none does
ExceptClause(cls) ==
    IF cls \in TransformErrorClasses THEN 1 ELSE 2

\* run.save(): every field of the instance is written to the row
SaveAll(row, obj) == obj
\* a save that writes nothing
SaveStatus_not_written(row, obj) == row
\* run.save(update_fields=["status"])
SaveStatus(row, obj) == [row EXCEPT !.status = obj.status]
\* run.save(update_fields=["status", "error_message"])
SaveStatusAndError(row, obj) ==
    [row EXCEPT !.status = obj.status, !.error_message = obj.error_message]

\* output_file.save(..., save=False): the instance is not saved
OutputFileSave_save_false(store, row, obj, filename, content) ==
    LET st == StorageSave(store, filename, content)
    IN  [store |-> st.store, obj |-> [obj EXCEPT !.output_file = st.ref], row |-> row]
\* run.output_file.save(filename, content, save=True): the file goes to the
\* storage, the field takes its name, and the instance is saved whole
OutputFileSave(store, row, obj, filename, content) ==
    LET st   == StorageSave(store, filename, content)
        obj2 == [obj EXCEPT !.output_file = st.ref]
    IN  [store |-> st.store, obj |-> obj2, row |-> SaveAll(row, obj2)]

(***************************************************************************)
(* api/serializers.py, api/views.py                                        *)
(***************************************************************************)
\* PipelineRunTriggerSerializer.destination: ChoiceField(["csv", "database"])
DestinationChoices == {S_csv, S_database}
TriggerIsValid(destination) == destination \in DestinationChoices

\* POST /api/pipelines/ (CreateModelMixin with PipelineSerializer): the
\* errors of validate_configuration become a ValidationError, which
\* custom_exception_handler answers with 400 VALIDATION_ERROR; an exception
\* of another class is not handled (the handler returns None) and the
\* request ends as a server error; otherwise the Pipeline is created
CreateResponse(value) ==
    IF validate_config(value).exc # NoExc
    THEN [status |-> 500, code |-> validate_config(value).exc.cls]
    ELSE IF validate_config(value).errors # <<>>
    THEN [status |-> 400, code |-> "VALIDATION_ERROR"]
    ELSE [status |-> 201, code |-> ""]


(***************************************************************************)
(* The data of the model                                                   *)
(***************************************************************************)
\* how many Run rows the orchestrator model creates
MaxRuns == 2

\* the callers that may be inside run_pipeline at the same time: a worker
\* of the view, and a caller of run_pipeline elsewhere in the project
ViewProcs == {1}
DirectProcs == {2}
Procs == ViewProcs \cup DirectProcs

c_id   == <<"i","d">>
c_name == <<"n","a","m","e">>
c_age  == <<"a","g","e">>

\* id,name,age / 1,Al,25 / 2,Bo,15 / 3,Cy,30 / 4,Di,18 as pd.read_csv
\* decodes it
PeopleRows ==
    << <<CInt(1), CStr(<<"A","l">>), CInt(25)>>,
       <<CInt(2), CStr(<<"B","o">>), CInt(15)>>,
       <<CInt(3), CStr(<<"C","y">>), CInt(30)>>,
       <<CInt(4), CStr(<<"D","i">>), CInt(18)>> >>
\* the first n rows of it, with the RangeIndex of a frame just read
People(n) ==
    Frame(<<c_id, c_name, c_age>>, <<"int64", "object", "int64">>,
          [k \in 1..n |-> k - 1], SubSeq(PeopleRows, 1, n))

Upload(name, valid, df) == [name |-> name, content |-> [valid |-> valid, df |-> df]]

\* the files uploaded
Files ==
    << Upload(<<"i","n",".","c","s","v">>, TRUE, People(3)),
       Upload(<<"d","a","t","a",".","t","x","t">>, TRUE, People(3)),
       Upload(<<"B",".","X","L","S","X">>, FALSE, NoFrame),
       Upload(<<".","c","s","v">>, TRUE, People(3)) >>

S_s3 == <<"s","3">>

Filter(col, op, v) ==
    JDict(<< <<K_column, JStr(col)>>, <<K_operator, JStr(op)>>, <<K_value, v>> >>)
Field(name, expr) ==
    JDict(<< <<K_name, JStr(name)>>, <<K_expression, JStr(expr)>> >>)
StrList(names) == JList([k \in 1..Len(names) |-> JStr(names[k])])

\* The Pipeline table, pk = position.  No view updates or deletes a
\* Pipeline, so the table is fixed; rows are created through the API or,
\* as the tests do, with Pipeline.objects.create.
Pipelines ==
    << JDict(<< <<K_filters, JList(<<Filter(c_age, S_gt, JInt(18))>>)>> >>),
       JDict(<< <<K_column_selection, StrList(<<c_id, <<"n","o","n","e","x","i","s","t","e","n","t","_","c","o","l","u","m","n">>>>)>> >>),
       JDict(<< <<K_computed_fields, JList(<<Field(<<"t">>, <<"u","p","p","e","r","(","n","a","m","e",")">>)>>)>> >>),
       JDict(<< <<K_filters, JList(<<Filter(c_age, <<"g","e">>, JInt(18))>>)>> >>) >>

\* The calls made: <<pipeline pk, file, destination>>.  Every destination
\* goes with the file that decodes, an unknown destination also with an
\* unsupported file; every pipeline is run on the file that decodes; the
\* file that does not decode and the file without extension are run once.
Requests ==
    << <<1, 1, S_csv>>, <<1, 1, S_database>>, <<1, 1, S_s3>>,
       <<2, 1, S_csv>>, <<3, 1, S_database>>, <<4, 1, S_csv>>,
       <<1, 3, S_csv>>,
       <<1, 2, S_csv>>, <<1, 2, S_s3>>, <<1, 4, S_csv>> >>

(***************************************************************************)
(* The run orchestrator as a state machine                                 *)
(***************************************************************************)
NoResp == [kind |-> "none", status |-> 0, code |-> ""]
HttpResp(status, code) == [kind |-> "http", status |-> status, code |-> code]
Returned == [kind |-> "returned", status |-> 0, code |-> ""]
Raised(code) == [kind |-> "raised", status |-> 0, code |-> code]

NoObj == RunRow(0, NoFile, NoFile, "", NoMsg)

IdleProc ==
    [pc |-> "idle", pipeline |-> 0, file |-> 0, destination |-> <<>>,
     run |-> 0, obj |-> NoObj, df |-> NoFrame, exc |-> NoExc, resp |-> NoResp]

UploadsDir == <<"u","p","l","o","a","d","s","/">>
OutputsDir == <<"o","u","t","p","u","t","s","/">>

\* runs, outputData: the PipelineRun and OutputData tables, pk = position;
\* storage: the files of the default storage; proc: where each caller stands
\* in run_pipeline and what its locals hold; calls: for each Run, what the
\* call that made it was given, computed and how it ended.
Init ==
    /\ runs = <<>>
    /\ outputData = <<>>
    /\ storage = <<>>
    /\ calls = <<>>
    /\ proc = [p \in Procs |-> IdleProc]
    /\ tin = [kind |-> "none"]
    /\ tout = [op |-> "none"]
    /\ vin = 0
    /\ vout = [op |-> "none"]

Harness == <<tin, tout, vin, vout>>

\* The call is refused before a Run exists: the view's trigger serializer
\* refuses the destination (views.py lines 41-52), or run_pipeline refuses
\* the extension (lines 76-81), which the view answers with 400 and the code.
Refused(http, file, destination) ==
    IF http /\ ~TriggerIsValid(destination)
    THEN HttpResp(400, "VALIDATION_ERROR")
    ELSE IF ~ExtensionAllowed(Files[file].name)
    THEN IF http THEN HttpResp(400, "UNSUPPORTED_FILE_TYPE")
                 ELSE Raised("UNSUPPORTED_FILE_TYPE")
    ELSE NoResp

\* run_pipeline up to line 88: the extension is checked, then the Run row is
\* created (the upload goes to the storage, then the INSERT).  From the view
\* (http) the trigger serializer has validated the destination before.
Begin(p, http) ==
    /\ proc[p].pc = "idle"
    /\ \E rq \in 1..Len(Requests) :
          LET pipeline    == Requests[rq][1]
              file        == Requests[rq][2]
              destination == Requests[rq][3]
          IN
          IF Refused(http, file, destination) # NoResp
          THEN /\ proc' = [proc EXCEPT ![p] =
                              [IdleProc EXCEPT !.file = file,
                                               !.destination = destination,
                                               !.resp = Refused(http, file, destination)]]
               /\ UNCHANGED <<runs, storage, calls>>
          ELSE /\ Len(runs) < MaxRuns
               /\   LET st  == StorageSave(storage, UploadsDir \o Files[file].name,
                                            Files[file].content)
                         obj == RunRow(pipeline, st.ref, NoFile, PENDING, NoMsg)
                     IN  /\ storage' = st.store
                         /\ runs' = Append(runs, obj)
                         /\ calls' = Append(calls,
                                            [file |-> file, destination |-> destination,
                                             df |-> NoFrame, exc |-> NoExc,
                                             ended |-> "running"])
                         /\ proc' = [proc EXCEPT ![p] =
                                        [IdleProc EXCEPT !.pc = "try",
                                                         !.pipeline = pipeline,
                                                         !.file = file,
                                                         !.destination = destination,
                                                         !.run = Len(runs) + 1,
                                                         !.obj = obj]]
    /\ UNCHANGED <<outputData, Harness>>

\* views.PipelineViewSet.run: POST /api/pipelines/{id}/run/
HttpRun(p) == Begin(p, TRUE)

\* run_pipeline called by other code of the project
DirectCall(p) == Begin(p, FALSE)

\* lines 92-96 as one computation: _read_file, then run_transforms
ReadFileThen(rd, config) == IF rd.ok THEN run_transforms(rd.df, config) ELSE rd

\* where the try block stands after lines 92-96 gave tr
Transformed(p, tr) ==
    IF tr.ok
    THEN /\ proc' = [proc EXCEPT ![p].pc = "write", ![p].df = tr.df]
         /\ calls' = [calls EXCEPT ![proc[p].run].df = tr.df]
    ELSE /\ proc' = [proc EXCEPT ![p].pc = "except", ![p].exc = tr.exc]
         /\ calls' = [calls EXCEPT ![proc[p].run].exc = tr.exc]

\* lines 91-96: read, then transform
ReadAndTransform(p) ==
    /\ proc[p].pc = "try"
    /\ Transformed(p, ReadFileThen(read_file(Files[proc[p].file]),
                                   Pipelines[proc[p].pipeline]))
    /\ UNCHANGED <<runs, outputData, storage, Harness>>

\* lines 99-104.  The storage or the database may refuse the write.
WriteCsv(p) ==
    /\ proc[p].pc = "write"
    /\ proc[p].destination = S_csv
    /\ LET pk       == proc[p].run
           filename == OutputsDir \o OutputFilename(proc[p].pipeline, pk)
           done     == OutputFileSave(storage, runs[pk], proc[p].obj, filename,
                                      write_csv(proc[p].df))
       IN  \E outcome \in {"saved", "storage refuses", "database refuses"} :
              CASE outcome = "saved" ->
                     /\ storage' = done.store
                     /\ runs' = [runs EXCEPT ![pk] = done.row]
                     /\ proc' = [proc EXCEPT ![p].pc = "complete", ![p].obj = done.obj]
                     /\ UNCHANGED calls
                [] outcome = "storage refuses" ->
                     /\ proc' = [proc EXCEPT ![p].pc = "except",
                                             ![p].exc = Exc("OSError", "storage", <<>>)]
                     /\ calls' = [calls EXCEPT ![pk].exc = Exc("OSError", "storage", <<>>)]
                     /\ UNCHANGED <<storage, runs>>
                [] outcome = "database refuses" ->
                     /\ storage' = done.store
                     /\ proc' = [proc EXCEPT ![p].pc = "except", ![p].obj = done.obj,
                                             ![p].exc = Exc("DatabaseError", "database", <<>>)]
                     /\ calls' = [calls EXCEPT ![pk].exc = Exc("DatabaseError", "database", <<>>)]
                     /\ UNCHANGED runs
    /\ UNCHANGED <<outputData, Harness>>

\* lines 106-107.  bulk_create inserts every row in one transaction, or none.
WriteDatabase(p) ==
    /\ proc[p].pc = "write"
    /\ proc[p].destination = S_database
    /\ \E inserted \in BOOLEAN :
          IF inserted
          THEN /\ outputData' = outputData \o write_database(proc[p].df, proc[p].run)
               /\ proc' = [proc EXCEPT ![p].pc = "complete"]
               /\ UNCHANGED calls
          ELSE /\ proc' = [proc EXCEPT ![p].pc = "except",
                                       ![p].exc = Exc("DatabaseError", "database", <<>>)]
               /\ calls' = [calls EXCEPT ![proc[p].run].exc =
                                             Exc("DatabaseError", "database", <<>>)]
               /\ UNCHANGED outputData
    /\ UNCHANGED <<runs, storage, Harness>>

\* lines 99-107 when the destination is neither "csv" nor "database": the
\* if/elif has no else, nothing is written
NoWrite(p) ==
    /\ proc[p].pc = "write"
    /\ proc[p].destination \notin {S_csv, S_database}
    /\ proc' = [proc EXCEPT ![p].pc = "complete"]
    /\ UNCHANGED <<runs, outputData, storage, calls, Harness>>

\* lines 109-110
MarkCompleted(p) ==
    /\ proc[p].pc = "complete"
    /\ LET obj == [proc[p].obj EXCEPT !.status = COMPLETED]
       IN  /\ runs' = [runs EXCEPT ![proc[p].run] = SaveStatus(runs[proc[p].run], obj)]
           /\ proc' = [proc EXCEPT ![p].pc = "return", ![p].obj = obj]
    /\ UNCHANGED <<outputData, storage, calls, Harness>>

\* lines 112-120: the two except clauses; an exception neither takes leaves
\* run_pipeline
ExceptClauses(p) ==
    /\ proc[p].pc = "except"
    /\ IF ExceptClause(proc[p].exc.cls) \in {1, 2}
       THEN LET obj == [proc[p].obj EXCEPT !.status = FAILED,
                                           !.error_message = StrOfExc(proc[p].exc)]
            IN  /\ runs' = [runs EXCEPT ![proc[p].run] =
                                            SaveStatusAndError(runs[proc[p].run], obj)]
                /\ proc' = [proc EXCEPT ![p].pc = "return", ![p].obj = obj]
                /\ UNCHANGED calls
       ELSE /\ proc' = [proc EXCEPT ![p] = [IdleProc EXCEPT !.resp = Raised(proc[p].exc.cls)]]
            /\ calls' = [calls EXCEPT ![proc[p].run].ended = "raised"]
            /\ UNCHANGED runs
    /\ UNCHANGED <<outputData, storage, Harness>>

\* line 122: the Run is returned (the view answers 200 with it)
Return(p) ==
    /\ proc[p].pc = "return"
    /\ proc' = [proc EXCEPT ![p] = [IdleProc EXCEPT !.resp = Returned]]
    /\ calls' = [calls EXCEPT ![proc[p].run].ended = "returned"]
    /\ UNCHANGED <<runs, outputData, storage, Harness>>

\* run_pipeline from line 84 to line 122 executed with no other call in
\* progress and a storage holding nothing else, for the call that is given
\* this pipeline, file and destination, creates the Run pk, and whose try
\* block is left by the exception exc (NoExc when by none): the Run row and
\* the OutputData rows it ends with
RunAloneWrites(up, obj, tr, destination, pk) ==
    IF destination = S_csv
    THEN [row |-> SaveStatus(OutputFileSave(up.store, obj, obj,
                                            OutputsDir \o OutputFilename(obj.pipeline, pk),
                                            write_csv(tr.df)).row,
                             [obj EXCEPT !.status = COMPLETED]),
          records |-> <<>>]
    ELSE [row |-> SaveStatus(obj, [obj EXCEPT !.status = COMPLETED]),
          records |-> IF destination = S_database THEN write_database(tr.df, pk) ELSE <<>>]
RunAloneFrom(up, obj, file, destination, pk, exc) ==
    IF exc # NoExc
    THEN [row |-> SaveStatusAndError(obj, [obj EXCEPT !.status = FAILED,
                                                      !.error_message = StrOfExc(exc)]),
          records |-> <<>>]
    ELSE RunAloneWrites(up, obj, ReadFileThen(read_file(Files[file]), Pipelines[obj.pipeline]),
                        destination, pk)
RunAlone(pipeline, file, destination, pk, exc) ==
    LET up == StorageSave(<<>>, UploadsDir \o Files[file].name, Files[file].content)
    IN  RunAloneFrom(up, RunRow(pipeline, up.ref, NoFile, PENDING, NoMsg),
                     file, destination, pk, exc)

\* the exceptions that can leave the try block of such a call
RunAloneExceptions(tr, destination) ==
    IF ~tr.ok THEN {tr.exc}
    ELSE {NoExc}
         \cup (IF destination = S_csv THEN {Exc("OSError", "storage", <<>>)} ELSE {})
         \cup (IF destination \in {S_csv, S_database}
               THEN {Exc("DatabaseError", "database", <<>>)} ELSE {})

Next ==
    \E p \in Procs :
        \/ p \in ViewProcs /\ HttpRun(p)
        \/ p \in DirectProcs /\ DirectCall(p)
        \/ ReadAndTransform(p)
        \/ WriteCsv(p)
        \/ WriteDatabase(p)
        \/ NoWrite(p)
        \/ MarkCompleted(p)
        \/ ExceptClauses(p)
        \/ Return(p)

Spec == Init /\ [][Next]_vars

(***************************************************************************)
(* The transform engine called on its own                                  *)
(***************************************************************************)
\* the longest frame and the longest list of filters given to the engine
MaxRows == 3
MaxFilters == 2
\* the longest list of computed fields given to apply_computed_fields
MaxFields == 2

\* the sequences over S of length at most n
RECURSIVE SeqsUpTo(_, _)
SeqsUpTo(S, n) ==
    IF n = 0 THEN {<<>>}
    ELSE LET shorter == SeqsUpTo(S, n - 1)
         IN  shorter \cup {Append(t, x) : t \in {u \in shorter : Len(u) = n - 1}, x \in S}

c_value == <<"v","a","l","u","e">>
c_full_name == <<"f","u","l","l","_","n","a","m","e">>
c_total == <<"t","o","t","a","l">>

\* frames with an int64 column value and an object column name, with the
\* RangeIndex every frame has when run_transforms hands it to apply_filters
\* (read_csv and read_excel give it, mapping and selection keep it)
ValueRows ==
    { <<CInt(50), CStr(<<"a">>)>>, <<CInt(200), CStr(<<"a","b">>)>>,
      <<CInt(300), CStr(<<"b">>)>> }
ValueFrames ==
    { Frame(<<c_value, c_name>>, <<"int64", "object">>,
            [k \in 1..Len(rows) |-> k - 1], rows) :
        rows \in SeqsUpTo(ValueRows, MaxRows) }

\* the filters given to apply_filters: applicable ones, a str compared with
\* the int64 column, a column the frame has not
FilterPool ==
    { Filter(c_value, S_gt, JInt(100)), Filter(c_value, S_lt, JInt(300)),
      Filter(c_value, S_eq, JInt(200)), Filter(c_name, S_contains, JStr(<<"a">>)),
      Filter(c_value, S_gt, JStr(<<"x">>)), Filter(c_age, S_gt, JInt(18)) }

\* the key/value pairs of the configurations given to run_transforms
P_mapping == <<K_column_mapping, JDict(<< <<c_name, JStr(c_full_name)>> >>)>>
P_computed == <<K_computed_fields, JList(<<Field(c_total, <<"a","d","d","(","a","g","e",","," ","i","d",")">>)>>)>>
ConfigPool ==
    << << P_mapping,
          <<K_column_selection, StrList(<<c_id, c_full_name, c_age>>)>>,
          <<K_filters, JList(<<Filter(c_full_name, S_contains, JStr(<<"A">>))>>)>>,
          P_computed,
          <<K_drop_columns, StrList(<<c_id>>)>> >>,
       << <<K_filters, JList(<<Filter(c_total, S_gt, JInt(20))>>)>>, P_computed >>,
       << P_mapping, <<K_filters, JList(<<Filter(c_name, S_contains, JStr(<<"A">>))>>)>> >>,
       << P_mapping, <<K_column_selection, StrList(<<c_name, c_age>>)>> >>,
       << <<K_column_selection, StrList(<<c_id, c_age>>)>>, P_computed,
          <<K_drop_columns, StrList(<<c_total>>)>> >>,
       << P_computed, <<K_drop_columns, StrList(<<c_total>>)>> >>,
       << <<K_column_selection, StrList(<<c_id, c_total>>)>>, P_computed >>,
       << <<K_filters, JList(<<Filter(c_age, S_gt, JInt(18))>>)>> >>,
       << >> >>

c_label == <<"l","a","b","e","l">>
c_t == <<"t">>
c_a == <<"a">>
c_b == <<"b">>
c_s == <<"s">>

\* the computed fields given to apply_computed_fields: two that evaluate, one
\* that reads the column the first one adds, expressions that reference one
\* and two columns no frame has, a function the engine has not, a text that
\* is no call
FieldPool ==
    { Field(c_total, <<"a","d","d","(","a","g","e",","," ","i","d",")">>),
      Field(c_label, <<"c","o","n","c","a","t","(","n","a","m","e",","," ","'","-","'",","," ","i","d",")">>),
      Field(c_t, <<"a","d","d","(","t","o","t","a","l",","," ","i","d",")">>),
      Field(c_t, <<"c","o","n","c","a","t","(","z","z",","," ","a","a",")">>),
      Field(c_t, <<"a","d","d","(","a","g","e",","," ","b","o","n","u","s",")">>),
      Field(c_t, <<"u","p","p","e","r","(","i","d",")">>),
      Field(c_t, <<"i","d"," ","*"," ","2">>) }

\* the people frames and their id column alone
FieldFrames ==
    {People(n) : n \in 0..MaxRows} \cup {TakeColumns(People(n), <<1>>) : n \in 0..MaxRows}

\* configurations no validation stands before: an operator and expressions
\* the engine does not know, on frames that keep rows and on frames the
\* filters empty; a mapping onto a label the frame has, a selection naming a
\* label twice; a field that fails after one that was assigned
UncheckedPool ==
    << << <<K_filters, JList(<<Filter(c_age, <<"g","e">>, JInt(18))>>)>> >>,
       << <<K_computed_fields, JList(<<Field(c_t, <<"u","p","p","e","r","(","n","a","m","e",")">>)>>)>> >>,
       << <<K_column_selection, StrList(<<c_id>>)>>,
          <<K_computed_fields, JList(<<Field(c_t, <<"i","d"," ","*"," ","2">>)>>)>> >>,
       << <<K_column_selection, StrList(<<c_age>>)>>,
          <<K_filters, JList(<<Filter(c_age, S_gt, JInt(100))>>)>>,
          <<K_computed_fields, JList(<<Field(c_t, <<"a","g","e"," ","*"," ","2">>)>>)>> >>,
       << <<K_column_mapping, JDict(<< <<c_name, JStr(c_id)>> >>)>> >>,
       << <<K_column_selection, StrList(<<c_id, c_id>>)>> >>,
       << <<K_computed_fields,
            JList(<<Field(c_total, <<"a","d","d","(","a","g","e",","," ","i","d",")">>), Field(c_t, <<"u","p","p","e","r","(","n","a","m","e",")">>)>>)>> >>,
       << <<K_filters, JList(<<>>)>>,
          <<K_computed_fields,
            JList(<<Field(c_total, <<"a","d","d","(","a","g","e",","," ","i","d",")">>), Field(c_t, <<"u","p","p","e","r","(","n","a","m","e",")">>)>>)>>,
          <<K_drop_columns, StrList(<<c_id>>)>> >> >>

\* rows with the int64 columns a and b and the object column s
ExprRows ==
    { [labels |-> <<c_a, c_b, c_s>>, cells |-> <<CInt(a), CInt(3), CStr(<<"x">>)>>] :
        a \in 0..MaxRows }

\* the expressions evaluated against a row: add with two numbers, with no,
\* one and three arguments, with quoted literals, with the object column
ExprPool ==
    { <<"a","d","d","(","a",","," ","b",")">>, <<"a","d","d","(",")">>, <<"a","d","d","(","a",")">>, <<"a","d","d","(","a",","," ","b",","," ","a",")">>,
      <<"a","d","d","(","'","2","'",","," ","'","3","'",")">>, <<"a","d","d","(","s",","," ","s",")">>, <<"a","d","d","(","a",","," ","s",")">>, <<"c","o","n","c","a","t","(","a",","," ","b",")">> }

\* the pairs in the order q
Reordered(pairs, q) == JDict([k \in 1..Len(pairs) |-> pairs[q[k]]])

\* what the engine is called with
TransformInputs ==
    {[kind |-> "filters", df |-> df, filters |-> fs] :
        df \in ValueFrames, fs \in SeqsUpTo(FilterPool, MaxFilters)}
    \cup
    UNION {{[kind |-> "config", df |-> People(n), pairs |-> ConfigPool[c], order |-> q] :
                n \in 0..MaxRows, q \in Permutations(1..Len(ConfigPool[c]))} :
            c \in 1..Len(ConfigPool)}
    \cup
    UNION {{[kind |-> "config", df |-> People(n), pairs |-> UncheckedPool[c], order |-> q] :
                n \in 0..MaxRows, q \in Permutations(1..Len(UncheckedPool[c]))} :
            c \in 1..Len(UncheckedPool)}
    \cup
    {[kind |-> "fields", df |-> df, fields |-> fs] :
        df \in FieldFrames, fs \in SeqsUpTo(FieldPool, MaxFields)}
    \cup
    {[kind |-> "expr", expr |-> e, row |-> r] : e \in ExprPool, r \in ExprRows}

InitT ==
    /\ runs = <<>>
    /\ outputData = <<>>
    /\ storage = <<>>
    /\ calls = <<>>
    /\ proc = [p \in Procs |-> IdleProc]
    /\ tin \in TransformInputs
    /\ tout = [op |-> "none"]
    /\ vin = 0
    /\ vout = [op |-> "none"]

\* apply_filters(df, filters)
Call_apply_filters ==
    /\ tin.kind = "filters"
    /\ tout.op = "none"
    /\ tout' = [op |-> "apply_filters", res |-> apply_filters(tin.df, JList(tin.filters)),
                arg |-> tin.df]
    /\ UNCHANGED <<runs, outputData, storage, proc, calls, tin, vin, vout>>

\* run_transforms(df, config)
Call_run_transforms ==
    /\ tin.kind = "config"
    /\ tout.op = "none"
    /\ tout' = [op |-> "run_transforms",
                res |-> run_transforms(tin.df, Reordered(tin.pairs, tin.order)),
                arg |-> run_transforms_leaves(tin.df, Reordered(tin.pairs, tin.order))]
    /\ UNCHANGED <<runs, outputData, storage, proc, calls, tin, vin, vout>>

\* apply_computed_fields(df, computed_fields); arg is the frame the caller
\* passed, as the call leaves it
Call_apply_computed_fields ==
    /\ tin.kind = "fields"
    /\ tout.op = "none"
    /\ tout' = [op |-> "apply_computed_fields",
                res |-> apply_computed_fields(tin.df, JList(tin.fields)),
                arg |-> apply_computed_fields_leaves(tin.df, JList(tin.fields))]
    /\ UNCHANGED <<runs, outputData, storage, proc, calls, tin, vin, vout>>

\* _eval_expression(expr, row)
Call_eval_expression ==
    /\ tin.kind = "expr"
    /\ tout.op = "none"
    /\ tout' = [op |-> "eval_expression", res |-> eval_expression(tin.expr, tin.row)]
    /\ UNCHANGED <<runs, outputData, storage, proc, calls, tin, vin, vout>>

NextT ==
    \/ Call_apply_filters
    \/ Call_run_transforms
    \/ Call_apply_computed_fields
    \/ Call_eval_expression

SpecT == InitT /\ [][NextT]_vars

(***************************************************************************)
(* The configuration validator called on its own                           *)
(***************************************************************************)
\* a key left out, or given one of these values
Given(key, values) == {<<>>} \cup {<< <<key, v>> >> : v \in values}

V_filters == JList(<<Filter(c_value, S_gt, JInt(100))>>)
V_computed == JList(<<Field(c_total, <<"c","o","n","c","a","t","(","n","a","m","e",","," ","'"," ","'",","," ","i","d",")">>)>>)
V_mapping == JDict(<< <<c_name, JStr(c_full_name)>> >>)

\* the key/value pairs that are well-formed transform steps
WellFormedTransformPairs ==
    { <<K_filters, V_filters>>, <<K_computed_fields, V_computed>>,
      <<K_column_mapping, V_mapping>> }

\* the values given as configuration: values that are no object, and objects
\* whose keys are each left out, well-formed, or malformed in one way
ConfigValues ==
    { JNull, JInt(5), JStr(S_csv), JList(<<>>) }
    \cup
    { JDict(st \o dt \o fn \o cm \o fl \o cf) :
        st \in Given(K_source_type,
                     {JStr(S_csv), JStr(<<"x","m","l">>), JList(<<JStr(S_csv)>>)}),
        dt \in Given(K_destination_type, {JStr(S_database), JStr(S_csv)}),
        fn \in Given(K_destination_filename, {JStr(<<"o","u","t",".","c","s","v">>)}),
        cm \in Given(K_column_mapping, {V_mapping}),
        fl \in Given(K_filters,
                     { V_filters, JStr(<<"n","o","t","-","a","-","l","i","s","t">>),
                       JList(<<Filter(c_value, <<"g","e">>, JInt(1))>>),
                       JList(<<JDict(<< <<K_column, JStr(c_value)>>,
                                        <<K_operator, JList(<<JStr(S_gt)>>)>>,
                                        <<K_value, JInt(1)>> >>)>>) }),
        cf \in Given(K_computed_fields,
                     { V_computed,
                       JList(<<Field(c_total, <<"u","p","p","e","r","(","n","a","m","e",")">>)>>),
                       JList(<<JDict(<< <<K_name, JStr(c_total)>>,
                                        <<K_expression, JInt(5)>> >>)>>) }) }

InitV ==
    /\ runs = <<>>
    /\ outputData = <<>>
    /\ storage = <<>>
    /\ calls = <<>>
    /\ proc = [p \in Procs |-> IdleProc]
    /\ tin = [kind |-> "none"]
    /\ tout = [op |-> "none"]
    /\ vin \in ConfigValues
    /\ vout = [op |-> "none"]

\* validate_config(config)
Call_validate_config ==
    /\ vout.op = "none"
    /\ vout' = [op |-> "validate_config", res |-> validate_config(vin)]
    /\ UNCHANGED <<runs, outputData, storage, proc, calls, tin, tout, vin>>

\* POST /api/pipelines/ with vin as configuration
CreatePipeline ==
    /\ vout.op = "none"
    /\ vout' = [op |-> "create", resp |-> CreateResponse(vin)]
    /\ UNCHANGED <<runs, outputData, storage, proc, calls, tin, tout, vin>>

NextV ==
    \/ Call_validate_config
    \/ CreatePipeline

SpecV == InitV /\ [][NextV]_vars

(***************************************************************************)
(* Properties of the configuration validator                               *)
(***************************************************************************)
\* C7: for a configuration object that holds nothing but well-formed
\* transform keys (the empty object, or only a filters list, ...),
\* validate_config returns the empty list and POST /api/pipelines/ answers
\* 201.
C7_EveryKeyOptional ==
    /\ vin.t = "dict"
    /\ \A k \in 1..Len(vin.kv) : vin.kv[k] \in WellFormedTransformPairs
    => /\ vout.op = "validate_config" => vout.res = [errors |-> <<>>, exc |-> NoExc]
       /\ vout.op = "create" => vout.resp.status = 201

\* C8: validate_config returns a list for every value it is given; no
\* exception leaves it.
C8_ValidateConfigTotal ==
    vout.op = "validate_config" => vout.res.exc = NoExc

(***************************************************************************)
(* Properties of the transform engine                                      *)
(***************************************************************************)
\* C6: run_transforms gives the same result, frame or exception, for every
\* order of the keys of the configuration; and the steps see each other in
\* the fixed order: a selection that succeeds names only labels the frame has
\* after the mapping, a filter that succeeds names only labels the frame has
\* after the mapping and the selection (so never a label that only
\* computed_fields would add), and a "missing column" failure of the
\* selection or of a filter is about a label absent at that point.
C6_FixedStepOrder ==
    tout.op = "run_transforms" =>
        LET config  == JDict(tin.pairs)
            labels  == Range(tin.df.columns)
            renamed == IF HasKey(config, K_column_mapping)
                       THEN {IF HasKey(Item(config, K_column_mapping), c)
                             THEN Item(Item(config, K_column_mapping), c).s
                             ELSE c : c \in labels}
                       ELSE labels
            selects == IF HasKey(config, K_column_selection)
                       THEN {x.s : x \in Range(Item(config, K_column_selection).xs)}
                       ELSE renamed
            filtered == IF HasKey(config, K_filters)
                        THEN {Item(f, K_column).s : f \in Range(Item(config, K_filters).xs)}
                        ELSE {}
        IN  /\ \A q \in Permutations(1..Len(tin.pairs)) :
                  run_transforms(tin.df, Reordered(tin.pairs, q)) = tout.res
            /\ tout.res.ok => selects \subseteq renamed /\ filtered \subseteq selects
            /\ tout.res.exc.text = "column_selection references missing columns: {sorted(missing)}"
                  => ~(selects \subseteq renamed)
            /\ tout.res.exc.text = "Filter references missing column: '{col}'"
                  => ~(filtered \subseteq selects)
            /\ selects \subseteq renamed /\ filtered \subseteq selects
                  => tout.res.exc.cls # "ColumnMismatchError"

\* the five steps listed in the reverse of the fixed order, on the three
\* people: the filter has seen the renamed column and the result carries the
\* renamed and the computed column
C6_Witness ==
    /\ tout.op = "run_transforms"
    /\ Len(tin.pairs) = 5
    /\ tin.order = <<5, 4, 3, 2, 1>>
    /\ Len(tin.df.rows) = 3
    /\ tout.res.ok
    /\ tout.res.df.columns = <<c_full_name, c_age, c_total>>
    /\ Len(tout.res.df.rows) = 1

\* C9: when apply_filters returns, the result has the columns of the input,
\* its rows are exactly the input rows that satisfy every filter, in their
\* order, and its row labels are 0, 1, ...; and it returns whenever every
\* filter names a column of the frame and compares it with a value of its
\* kind.
C9_FiltersConjunction ==
    tout.op = "apply_filters" =>
        LET df == tin.df
            Cell(row, f) == row[CHOOSE p \in 1..Len(df.columns) :
                                    df.columns[p] = Item(f, K_column).s]
            Sat(row, f) ==
                CASE Item(f, K_operator).s = S_gt -> Cell(row, f).i > Item(f, K_value).i
                  [] Item(f, K_operator).s = S_lt -> Cell(row, f).i < Item(f, K_value).i
                  [] Item(f, K_operator).s = S_eq -> Cell(row, f).i = Item(f, K_value).i
                  [] Item(f, K_operator).s = S_contains ->
                        Contains(Cell(row, f).s, Item(f, K_value).s)
            Applicable(f) ==
                /\ Item(f, K_column).s \in Range(df.columns)
                /\ Item(f, K_operator).s \in {S_gt, S_lt, S_eq} =>
                      Item(f, K_column).s = c_value /\ Item(f, K_value).t = "int"
                /\ Item(f, K_operator).s = S_contains =>
                      Item(f, K_column).s = c_name /\ Item(f, K_value).t = "str"
            AllApplicable == \A k \in 1..Len(tin.filters) : Applicable(tin.filters[k])
        IN  /\ AllApplicable <=> tout.res.ok
            /\ tout.res.ok =>
                  /\ tout.res.df.columns = df.columns
                  /\ tout.res.df.dtypes = df.dtypes
                  /\ tout.res.df.rows =
                        SelectSeq(df.rows,
                                  LAMBDA row : \A k \in 1..Len(tin.filters) :
                                                    Sat(row, tin.filters[k]))
                  /\ tout.res.df.index = [k \in 1..Len(tout.res.df.rows) |-> k - 1]

\* value = [50, 200, 300] filtered by value > 100: the rows with 200 and 300
\* at the labels 0 and 1
C9_Witness ==
    /\ tout.op = "apply_filters"
    /\ [r \in 1..Len(tin.df.rows) |-> tin.df.rows[r][1]] = <<CInt(50), CInt(200), CInt(300)>>
    /\ tin.filters = <<Filter(c_value, S_gt, JInt(100))>>
    /\ tout.res.ok
    /\ [r \in 1..Len(tout.res.df.rows) |-> tout.res.df.rows[r][1]] = <<CInt(200), CInt(300)>>
    /\ tout.res.df.index = <<0, 1>>

\* C11: a filter or a computed field that references a column the frame has
\* not when the step runs fails with ColumnMismatchError, and the error names
\* the missing columns sorted: the column of the filter, and every absent
\* column the expression of the computed field references, in sorted order.
C11_MissingColumnsAllNamedSorted ==
    /\ tout.op = "apply_filters" /\ tin.filters # <<>>
          /\ Item(tin.filters[1], K_column).s \notin Range(tin.df.columns)
          => /\ ~tout.res.ok
             /\ tout.res.exc.cls = "ColumnMismatchError"
             /\ tout.res.exc.args = <<Item(tin.filters[1], K_column).s>>
    /\ tout.op = "apply_computed_fields" /\ tin.fields # <<>> =>
          LET m      == EXPR_RE_match(Strip(Item(tin.fields[1], K_expression).s))
              args   == IF m.matched THEN parse_args(m.g2) ELSE <<>>
              absent == {a \in Range(args) : /\ ~LITERAL_RE_match(a).matched
                                             /\ a \notin Range(tin.df.columns)}
          IN  absent # {} =>
                  /\ ~tout.res.ok
                  /\ tout.res.exc.cls = "ColumnMismatchError"
                  /\ tout.res.exc.args =
                        <<Item(tin.fields[1], K_name).s>> \o SortedStrs(absent)

\* C12: add evaluates to the arithmetic sum of exactly two arguments that
\* resolve to numbers, add(a, b) with a = 2 and b = 3 giving the number 5;
\* with another number of arguments, or with an argument that resolves to a
\* string, the evaluation fails.
C12_AddSumsTwoNumbers ==
    tout.op = "eval_expression" =>
        LET m    == EXPR_RE_match(Strip(tin.expr))
            args == parse_args(m.g2)
            vals == [k \in 1..Len(args) |-> resolve_arg(args[k], tin.row)]
        IN  m.matched /\ m.g1 = S_add =>
                IF Len(args) = 2 /\ \A k \in 1..2 : vals[k].t = "int"
                THEN /\ tout.res.ok
                     /\ tout.res.val = PInt(vals[1].i + vals[2].i)
                ELSE ~tout.res.ok

\* C13: a step of the engine that fails, and run_transforms when it fails,
\* leaves the frame it was given with the columns and the rows it had before
\* the call: no column computed before the failing field stays on it.
C13_FailsAtomically ==
    tout.op \in {"apply_filters", "apply_computed_fields", "run_transforms"}
        /\ ~tout.res.ok
        => /\ tout.arg.columns = tin.df.columns
           /\ tout.arg.rows = tin.df.rows

\* C14: run_transforms returns no frame, and fails with an error of the
\* TransformError family, whenever a filter on a column the frame has at that
\* step carries an operator outside eq, gt, lt, contains, or the expression
\* of a computed field is no call name(args) or calls a function outside
\* concat, add; for every frame, the ones without rows included.
C14_UnknownOperatorOrFunctionFails ==
    tout.op = "run_transforms" =>
        LET config == JDict(tin.pairs)
            before == RunSteps(Ok(tin.df), config, <<K_column_mapping, K_column_selection>>)
            BadFilter(f) ==
                /\ Item(f, K_operator).s \notin {S_eq, S_gt, S_lt, S_contains}
                /\ before.ok
                /\ Item(f, K_column).s \in Range(before.df.columns)
            BadField(field) ==
                LET m == EXPR_RE_match(Strip(Item(field, K_expression).s))
                IN  ~m.matched \/ m.g1 \notin {S_concat, S_add}
        IN  \/ /\ HasKey(config, K_filters)
               /\ \E f \in Range(Item(config, K_filters).xs) : BadFilter(f)
            \/ /\ HasKey(config, K_computed_fields)
               /\ \E field \in Range(Item(config, K_computed_fields).xs) : BadField(field)
            => /\ ~tout.res.ok
               /\ tout.res.exc.cls \in TransformErrorClasses

\* C15: when run_transforms is given a frame whose column names are pairwise
\* distinct and returns, the column names of the result are pairwise distinct
\* and every row of the result has one cell for each of them.
C15_ColumnNamesStayUnique ==
    tout.op = "run_transforms" /\ tout.res.ok
        /\ Cardinality(Range(tin.df.columns)) = Len(tin.df.columns)
        => /\ Cardinality(Range(tout.res.df.columns)) = Len(tout.res.df.columns)
           /\ \A r \in 1..Len(tout.res.df.rows) :
                 Len(tout.res.df.rows[r]) = Len(tout.res.df.columns)

(***************************************************************************)
(* Properties of the run orchestrator                                      *)
(***************************************************************************)
\* C1: every Run row is created with status Pending; a step of run_pipeline
\* changes a persisted status only when it is Pending and only to Completed
\* or Failed, so a status changes at most once and never again once it is
\* terminal (no row is deleted either); and when run_pipeline has ended for a
\* Run, the status has changed: it is Completed or Failed.
C1_StatusChangesExactlyOnce ==
    /\ [][/\ Len(runs') >= Len(runs)
          /\ \A pk \in 1..Len(runs') :
                IF pk > Len(runs)
                THEN runs'[pk].status = PENDING
                ELSE \/ runs'[pk].status = runs[pk].status
                     \/ /\ runs[pk].status = PENDING
                        /\ runs'[pk].status \in {COMPLETED, FAILED}]_vars
    /\ [](\A pk \in 1..Len(runs) :
             calls[pk].ended # "running" => runs[pk].status \in {COMPLETED, FAILED})

\* two calls have returned, one Run Completed and the other Failed
C1_Witness ==
    \E pk, qk \in 1..Len(runs) :
        /\ calls[pk].ended = "returned" /\ runs[pk].status = COMPLETED
        /\ calls[qk].ended = "returned" /\ runs[qk].status = FAILED

\* C2: in every state of the tables, a Run made with destination csv whose
\* status is Completed has an output reference, and the file it names is in
\* the storage.
C2_CompletedCsvHasOutput ==
    \A pk \in 1..Len(runs) :
        calls[pk].destination = S_csv /\ runs[pk].status = COMPLETED
            => /\ runs[pk].output_file # NoFile
               /\ \E k \in 1..Len(storage) :
                     /\ storage[k].name = runs[pk].output_file.name
                     /\ storage[k].n = runs[pk].output_file.n

\* one csv Run is Completed with its output reference, another has its
\* output reference committed while it is still Pending
C2_Witness ==
    \E pk, qk \in 1..Len(runs) :
        /\ calls[pk].destination = S_csv /\ runs[pk].status = COMPLETED
        /\ runs[pk].output_file # NoFile
        /\ calls[qk].destination = S_csv /\ runs[qk].status = PENDING
        /\ runs[qk].output_file # NoFile

\* C3: an exception raised after the Run row was created, in reading, in
\* transforming or in writing, never leaves run_pipeline; and once the call
\* has returned the persisted status is Failed and the persisted error
\* message is str() of that exception.
C3_FailureCaptured ==
    \A pk \in 1..Len(runs) :
        calls[pk].exc # NoExc
            => /\ calls[pk].ended # "raised"
               /\ calls[pk].ended = "returned"
                    => /\ runs[pk].status = FAILED
                       /\ runs[pk].error_message =
                             [null |-> FALSE, text |-> calls[pk].exc.text,
                              args |-> calls[pk].exc.args]

\* two calls returned after a failure: a ColumnMismatchError, and an
\* exception that is no TransformError
C3_Witness ==
    \E pk, qk \in 1..Len(runs) :
        /\ calls[pk].ended = "returned" /\ calls[pk].exc.cls = "ColumnMismatchError"
        /\ runs[pk].status = FAILED
        /\ calls[qk].ended = "returned" /\ calls[qk].exc # NoExc
        /\ calls[qk].exc.cls \notin TransformErrorClasses
        /\ runs[qk].status = FAILED

C5_NoRunForUnknownDestination ==
    \A pk \in 1..Len(runs) : calls[pk].destination \in {S_csv, S_database}

\* C10: a Run made with destination database whose status is Completed owns
\* one OutputData row per row of the transformed frame, in row order, each
\* holding the labels and cells of that row, and its output reference is null.
C10_DatabaseRecordsMatchRows ==
    \A pk \in 1..Len(runs) :
        calls[pk].destination = S_database /\ runs[pk].status = COMPLETED
            => LET owned == SelectSeq(outputData, LAMBDA o : o.pipeline_run = pk)
                   df    == calls[pk].df
               IN  /\ Len(owned) = Len(df.rows)
                   /\ Len(df.rows) = Len(df.index)
                   /\ \A r \in 1..Len(owned) :
                         owned[r].data =
                            [c \in 1..Len(df.columns) |-> <<df.columns[c], df.rows[r][c]>>]
                   /\ runs[pk].output_file = NoFile

\* the three rows aged 25, 15, 30 filtered by age > 18 into the database:
\* the Run is Completed and owns exactly two records
C10_Witness ==
    \E pk \in 1..Len(runs) :
        /\ calls[pk].destination = S_database
        /\ calls[pk].ended = "returned"
        /\ runs[pk].status = COMPLETED
        /\ Len(calls[pk].df.rows) = 2
        /\ Cardinality({k \in 1..Len(outputData) : outputData[k].pipeline_run = pk}) = 2



\* C16: runs in progress at the same time are independent.  Every step of
\* run_pipeline is the step of one caller and writes only what is its own:
\* the row of its Run, OutputData rows of its Run, its upload and the output
\* file named after its Run; the rows, records and files of the other Runs
\* stay as they are.  And every Run that has reached a terminal status has
\* the status, the error message, the output reference and the records that
\* the same call ends with when it executes alone, whatever the other call
\* did in between.
C16_ConcurrentRunsIndependent ==
    /\ [][\E p \in Procs :
            LET pk == IF proc[p].pc = "idle" THEN proc'[p].run ELSE proc[p].run
            IN  /\ \A q \in Procs \ {p} : proc'[q] = proc[q]
                /\ Len(runs') >= Len(runs)
                /\ \A k \in 1..Len(runs') :
                      k # pk => k <= Len(runs) /\ runs'[k] = runs[k] /\ calls'[k] = calls[k]
                /\ SubSeq(outputData', 1, Len(outputData)) = outputData
                /\ \A r \in Len(outputData) + 1..Len(outputData') :
                      outputData'[r].pipeline_run = pk
                /\ SubSeq(storage', 1, Len(storage)) = storage
                /\ \A f \in Len(storage) + 1..Len(storage') :
                      /\ pk # 0
                      /\ storage'[f].name \in {UploadsDir \o Files[calls'[pk].file].name,
                                      OutputsDir \o OutputFilename(runs'[pk].pipeline, pk)}]_vars
    /\ [](\A pk \in 1..Len(runs) :
             runs[pk].status \in {COMPLETED, FAILED} =>
                 LET alone == RunAlone(runs[pk].pipeline, calls[pk].file,
                                       calls[pk].destination, pk, calls[pk].exc)
                 IN  /\ calls[pk].exc \in
                           RunAloneExceptions(ReadFileThen(read_file(Files[calls[pk].file]),
                                                           Pipelines[runs[pk].pipeline]),
                                              calls[pk].destination)
                     /\ runs[pk].status = alone.row.status
                     /\ runs[pk].error_message = alone.row.error_message
                     /\ runs[pk].output_file = alone.row.output_file
                     /\ SelectSeq(outputData, LAMBDA r : r.pipeline_run = pk) = alone.records)

\* two calls for the same pipeline and file with the destination csv, the
\* second begun after the first created its Run and ended before the first
\* returned: both Runs are Completed, each with the output file of its name
C16_Witness ==
    /\ Len(runs) = 2
    /\ runs[1].pipeline = runs[2].pipeline
    /\ calls[1].file = calls[2].file
    /\ calls[2].ended = "returned"
    /\ \E p \in Procs : proc[p].pc = "return" /\ proc[p].run = 1
    /\ runs[1].status = COMPLETED /\ runs[2].status = COMPLETED
    /\ runs[1].output_file = FileRef(OutputsDir \o OutputFilename(runs[1].pipeline, 1), 0)
    /\ runs[2].output_file = FileRef(OutputsDir \o OutputFilename(runs[2].pipeline, 2), 0)

=============================================================================
